---- MODULE Spec2Model ----
(***************************************************************************)
(* Jira export -> Applens / MSM spreadsheet transformation pipelines.      *)
(*                                                                         *)
(* Two pipelines are modelled, each as the four phase functions its entry  *)
(* point calls inside one try/except:                                      *)
(*   strict schema : data_transformer.run_transformation_pipeline          *)
(*   MSM schema    : msm_transformer.run_msm_transformation_pipeline       *)
(* Beside them: an entry point called twice on one input (SpecTwice), the  *)
(* paginated fetch jira_fetcher.fetch_jira_issues (SpecFetch), and two     *)
(* worker threads of main_gui.py side by side (SpecWorkers).               *)
(*                                                                         *)
(* Text whose characters the code inspects (CSV header names, the aliases  *)
(* they are compared with) is a sequence of one-character strings, so that *)
(* str.lower, str.strip and the `in` substring test are computed.  Names   *)
(* the code only compares for equality (DataFrame column names after the   *)
(* rename, cell text) are TLA+ strings.                                    *)
(***************************************************************************)
EXTENDS Integers, Sequences, FiniteSets, TLC

VARIABLES
    schema,        \* "strict" | "msm": which entry point was called
    file_exists,   \* os.path.exists(input_path)
    file_columns,  \* header row of the CSV, as pandas reads it (unique names)
    file_rows,     \* data rows of the CSV: sequences of raw cell text
    now_month,     \* datetime.now().strftime('%B')
    pc,            \* position of the entry point
    df,            \* the entry point's local variable df
    recon,         \* what the loader's header loop computed
    rows_read,     \* the loader's second read_csv (the data rows) was made
    phases,        \* "Phase n" start events logged, in order
    completed,     \* phases whose function returned
    failed,        \* 0, or the phase that raised / reported failure
    log,           \* warnings and errors logged, in order
    exc,           \* the exception in flight, or NoExc
    writes,        \* tables handed to a spreadsheet writer, in order
    result,        \* "none" | "True" | "False" | "escaped"
    \* fetch_jira_issues
    creds,           \* what the arguments and the environment hold
    fpc,             \* position of fetch_jira_issues
    next_page_token, \* the local next_page_token
    all_issues,      \* the local all_issues
    requests,        \* the token of each POST made, in order
    responses,       \* the response to each POST, in order
    beyond,          \* more POSTs were made than requests records
    csv,             \* the content of output_csv_path, or NoFile
    fetch_result,    \* "none" | "True" | "False" | the exception raised
    \* an entry point called a second time on the same input
    run,             \* 1 | 2: which call this is
    first,           \* what the first call came to, or NoRun
    \* main_gui.py: two worker threads
    w_mode,          \* per worker: "file" (run_wrapper_file) | "api" (run_wrapper_api)
    w_pc,            \* per worker: its position
    w_read,          \* per worker: the table its pipeline loaded, or NoRead
    temp_csv,        \* the content of "Jira_API_Dump.csv", or NoFile
    \* main_gui.py: the window
    run_disabled,    \* the RUN button is disabled
    events           \* -THREAD-DONE- events written and not yet read

vars == <<schema, file_exists, file_columns, file_rows, now_month, pc, df,
          recon, rows_read, phases, completed, failed, log, exc, writes, result,
          creds, fpc, next_page_token, all_issues, requests, responses, beyond,
          csv, fetch_result, run, first, w_mode, w_pc, w_read, temp_csv,
          run_disabled, events>>

-----------------------------------------------------------------------------
(* Bounds of the model *)

\* most data rows in an input file
MaxRows == 2
\* most header names in a file of the strict header-reconciliation inputs
MaxStrictHeaders == 6
\* most header names in a file of the MSM header-reconciliation inputs
MaxMsmHeaders == 3
\* most POSTs of a fetch that are recorded
MaxRequests == 3
\* most issues in one page of a search response
MaxPageIssues == 2

-----------------------------------------------------------------------------
(* Python str operations on character sequences *)

UpperChars == <<"A","B","C","D","E","F","G","H","I","J","K","L","M",
                "N","O","P","Q","R","S","T","U","V","W","X","Y","Z">>
LowerChars == <<"a","b","c","d","e","f","g","h","i","j","k","l","m",
                "n","o","p","q","r","s","t","u","v","w","x","y","z">>
Whitespace == {" ", "\t"}

Range(s) == {s[i] : i \in 1..Len(s)}
MinOf(S) == CHOOSE x \in S : \A y \in S : x <= y
MaxOf(S) == CHOOSE x \in S : \A y \in S : x >= y

ToLower == [c \in Range(UpperChars) |-> LowerChars[CHOOSE i \in 1..26 : UpperChars[i] = c]]
ToUpper == [c \in Range(LowerChars) |-> UpperChars[CHOOSE i \in 1..26 : LowerChars[i] = c]]

lower_char(c) == IF c \in DOMAIN ToLower THEN ToLower[c] ELSE c
upper_char(c) == IF c \in DOMAIN ToUpper THEN ToUpper[c] ELSE c

\* str.lower()
lower(s) == [i \in 1..Len(s) |-> lower_char(s[i])]

\* str.strip()
strip(s) ==
    LET keep == {i \in 1..Len(s) : s[i] \notin Whitespace}
    IN  IF keep = {} THEN <<>> ELSE SubSeq(s, MinOf(keep), MaxOf(keep))

\* sub in s
contains(sub, s) ==
    \E i \in 1..(Len(s) - Len(sub) + 1) : SubSeq(s, i, i + Len(sub) - 1) = sub

\* col.lower().strip()
col_lower(col) == strip(lower(col))

-----------------------------------------------------------------------------
(* Strict schema: configuration (data_transformer.py) *)

\* the keys of COLUMN_MAPPING in dict order
COLUMN_MAPPING_KEYS == <<"Issue Key", "Issue Type", "Updated", "Status", "Resolved">>

COLUMN_MAPPING ==
    [k \in Range(COLUMN_MAPPING_KEYS) |->
        CASE k = "Issue Key"  -> "Ticket ID"
          [] k = "Issue Type" -> "Ticket Type"
          [] k = "Updated"    -> "Open Date"
          [] k = "Status"     -> "Status"
          [] k = "Resolved"   -> "Closed Date"]

\* the characters of the strings the code inspects: the COLUMN_MAPPING keys
\* and the cell texts of the identifier column
Chars(name) ==
    CASE name = ""           -> <<>>
      [] name = "x"          -> <<"x">>
      [] name = "CSI-102"    -> <<"C","S","I","-","1","0","2">>
      [] name = "OPS-55"     -> <<"O","P","S","-","5","5">>
      [] name = "csi-7"      -> <<"c","s","i","-","7">>
      [] name = "Issue Key"  -> <<"I","s","s","u","e"," ","K","e","y">>
      [] name = "Issue Type" -> <<"I","s","s","u","e"," ","T","y","p","e">>
      [] name = "Updated"    -> <<"U","p","d","a","t","e","d">>
      [] name = "Status"     -> <<"S","t","a","t","u","s">>
      [] name = "Resolved"   -> <<"R","e","s","o","l","v","e","d">>

\* the CONSTANTS dict: static values for every row, in dict order
STATIC_KEYS == <<"Priority", "Application", "Assignment Group">>
STATIC_VALUES ==
    [k \in Range(STATIC_KEYS) |->
        CASE k = "Priority"         -> "NONE"
          [] k = "Application"      -> "HMOF"
          [] k = "Assignment Group" -> "HMH Support Group"]

FINAL_COLUMN_ORDER ==
    <<"Ticket ID", "Ticket Type", "Open Date", "Priority",
      "Status", "Application", "Assignment Group", "Closed Date">>

-----------------------------------------------------------------------------
(* Strict schema: header reconciliation of load_source_data *)

\* {col.lower().strip(): col for col in actual_file_columns}: a later column
\* with the same key replaces an earlier one
actual_col_map(cols) ==
    LET keys == [i \in 1..Len(cols) |-> col_lower(cols[i])]
    IN  [k \in Range(keys) |-> cols[MaxOf({i \in 1..Len(cols) : keys[i] = k})]]

\* req_lower = required_col.lower().strip(), for each required column
req_lower == [r \in Range(COLUMN_MAPPING_KEYS) |-> col_lower(Chars(r))]

\* a mutant of missing_cols: only the first unresolved column is reported
missing_cols_first_only(m) ==
    LET all == SelectSeq(COLUMN_MAPPING_KEYS, LAMBDA r : req_lower[r] \notin DOMAIN m)
    IN  IF all = <<>> THEN <<>> ELSE <<all[1]>>

\* the else branch of the loop: every required column not in the map
missing_cols(m) ==
    SelectSeq(COLUMN_MAPPING_KEYS, LAMBDA r : req_lower[r] \notin DOMAIN m)

\* the for loop over COLUMN_MAPPING.keys()
strict_reconcile(cols) ==
    LET m         == actual_col_map(cols)
        present   == SelectSeq(COLUMN_MAPPING_KEYS, LAMBDA r : req_lower[r] \in DOMAIN m)
        usecols   == [i \in 1..Len(present) |-> m[req_lower[present[i]]]]
    IN  [ usecols_actual    |-> usecols,
          normalization_map |->
              [h \in Range(usecols) |->
                  present[MaxOf({i \in 1..Len(present) : usecols[i] = h})]],
          missing_cols      |-> missing_cols(m) ]

-----------------------------------------------------------------------------
(* MSM schema: configuration (msm_transformer.py) *)

MSM_FINAL_COLUMN_ORDER ==
    << "S.No", "Tower", "Application", "JIRA ID", "Priority", "Issue Summary",
       "Assignee", "Platform / Content / Data", "Status", "Issue Status", "Month",
       "Issue Creation Time mm/dd/yyyy hh:mm:ss am/pm",
       "Issue Assigned Time (CTS)mm/dd/yyyy hh:mm:ss am/pm",
       "CTS Response Time mm/dd/yyyy hh:mm:ss am/pm",
       "Response SLA Met?",
       "CTS Resolution Time mm/dd/yyyy hh:mm:ss am/pm",
       "Resolution SLA Met?", "Last updated Date", "Service Category",
       "Request Type", "Causal Code", "Resolution Code",
       "High Level Debt Classification", "Technical Debt Classification",
       "Functional Debt Classification", "Operational Debt Classification",
       "Knowledge Debt Classification", "Time Spent()" >>

\* the fields of load_jira_data's if-chain, in the order of the chain
MSM_FIELDS ==
    <<"Issue Key", "Project Name", "Summary", "Assignee", "Priority", "Status",
      "Platform", "Created", "Updated", "Resolved", "Worklog">>

\* the condition each link of the chain puts on col_lower
field_matches(field, cl) ==
    CASE field = "Issue Key" ->
            \/ cl = <<"i","s","s","u","e"," ","k","e","y">>
            \/ cl = <<"k","e","y">>
      [] field = "Project Name" ->
            \/ cl = <<"p","r","o","j","e","c","t"," ","n","a","m","e">>
            \/ cl = <<"p","r","o","j","e","c","t">>
      [] field = "Summary"  -> cl = <<"s","u","m","m","a","r","y">>
      [] field = "Assignee" -> contains(<<"a","s","s","i","g","n","e","e">>, cl)
      [] field = "Priority" -> cl = <<"p","r","i","o","r","i","t","y">>
      [] field = "Status"   -> cl = <<"s","t","a","t","u","s">>
      [] field = "Platform" -> contains(<<"p","l","a","t","f","o","r","m">>, cl)
      [] field = "Created"  -> contains(<<"c","r","e","a","t","e","d">>, cl)
      [] field = "Updated"  -> contains(<<"u","p","d","a","t","e","d">>, cl)
      [] field = "Resolved" -> contains(<<"r","e","s","o","l","v","e","d">>, cl)
      [] field = "Worklog"  ->
            \/ contains(<<"w","o","r","k","l","o","g">>, cl)
            \/ contains(<<"t","i","m","e"," ","s","p","e","n","t">>, cl)

-----------------------------------------------------------------------------
(* MSM schema: header reconciliation of load_jira_data *)

EmptyScan == [columns_to_read |-> <<>>, column_map |-> <<>>, found_columns |-> {}]

\* a mutant of scan_column: the `not in found_columns` tests are left out, so
\* a field already found binds again
scan_column_refound(acc, col) ==
    LET cl    == col_lower(col)
        links == {k \in 1..Len(MSM_FIELDS) : field_matches(MSM_FIELDS[k], cl)}
    IN  IF links = {} THEN acc
        ELSE LET field == MSM_FIELDS[MinOf(links)]
             IN  [ columns_to_read |-> Append(acc.columns_to_read, col),
                   column_map      |-> (col :> field) @@ acc.column_map,
                   found_columns   |-> acc.found_columns \cup {field} ]

\* a mutant of scan_column: the links of the chain are tried last to first
scan_column_reversed(acc, col) ==
    LET cl    == col_lower(col)
        links == {k \in 1..Len(MSM_FIELDS) :
                     /\ MSM_FIELDS[k] \notin acc.found_columns
                     /\ field_matches(MSM_FIELDS[k], cl)}
    IN  IF links = {} THEN acc
        ELSE LET field == MSM_FIELDS[MaxOf(links)]
             IN  [ columns_to_read |-> Append(acc.columns_to_read, col),
                   column_map      |-> (col :> field) @@ acc.column_map,
                   found_columns   |-> acc.found_columns \cup {field} ]

\* one iteration of `for col in all_columns`: the first link of the chain whose
\* field is not yet found and whose condition holds binds the column and
\* continues; a column no link takes is left alone
scan_column(acc, col) ==
    LET cl    == col_lower(col)
        links == {k \in 1..Len(MSM_FIELDS) :
                     /\ MSM_FIELDS[k] \notin acc.found_columns
                     /\ field_matches(MSM_FIELDS[k], cl)}
    IN  IF links = {} THEN acc
        ELSE LET field == MSM_FIELDS[MinOf(links)]
             IN  [ columns_to_read |-> Append(acc.columns_to_read, col),
                   column_map      |-> (col :> field) @@ acc.column_map,
                   found_columns   |-> acc.found_columns \cup {field} ]

RECURSIVE scan_columns(_, _)
scan_columns(cols, n) ==
    IF n = 0 THEN EmptyScan ELSE scan_column(scan_columns(cols, n - 1), cols[n])

msm_reconcile(cols) == scan_columns(cols, Len(cols))

-----------------------------------------------------------------------------
(* pandas values and tables *)

NaN == [nan |-> TRUE]        \* a missing cell
NaT == [nat |-> TRUE]        \* a missing timestamp
Str(t) == [s |-> t]          \* text
IntVal(n) == [n |-> n]       \* an integer
Float2(h) == [f2 |-> h]      \* a float with two decimals, in hundredths
Timestamp(d) == [ts |-> d]   \* a parsed date

isna(v) == v = NaN \/ v = NaT

\* read_csv turns an empty field into NaN and keeps other text
parse_cell(raw) == IF raw = "" THEN NaN ELSE Str(raw)

\* A DataFrame: column labels, and rows of an index label and the cells of
\* the columns by position
EmptyFrame == [columns |-> <<>>, rows |-> <<>>]

Position(seq, x) ==
    CHOOSE i \in 1..Len(seq) : seq[i] = x /\ \A j \in 1..(i - 1) : seq[j] # x

has_column(d, c) == c \in Range(d.columns)

\* df[c] as the sequence of its cells
column(d, c) == [i \in 1..Len(d.rows) |-> d.rows[i].cells[Position(d.columns, c)]]

\* pd.read_csv(file, usecols=usecols): the named columns in file order, one
\* row per data row, index 0..n-1; with no column to read, an empty frame
read_csv(cols, rows, usecols) ==
    LET at == SelectSeq([p \in 1..Len(cols) |-> p],
                        LAMBDA p : cols[p] \in Range(usecols))
    IN  IF at = <<>> THEN EmptyFrame
        ELSE [ columns |-> [k \in 1..Len(at) |-> cols[at[k]]],
               rows    |-> [i \in 1..Len(rows) |->
                              [ idx   |-> i - 1,
                                cells |-> [k \in 1..Len(at) |->
                                              parse_cell(rows[i][at[k]])] ]] ]

\* df.rename(columns=m)
rename(d, m) ==
    [d EXCEPT !.columns =
        [k \in 1..Len(d.columns) |->
            IF d.columns[k] \in DOMAIN m THEN m[d.columns[k]] ELSE d.columns[k]]]

\* df.loc[:, ~df.columns.duplicated()]
drop_duplicated_columns(d) ==
    LET at == SelectSeq([p \in 1..Len(d.columns) |-> p],
                        LAMBDA p : \A q \in 1..(p - 1) : d.columns[q] # d.columns[p])
    IN  [ columns |-> [k \in 1..Len(at) |-> d.columns[at[k]]],
          rows    |-> [i \in 1..Len(d.rows) |->
                         [d.rows[i] EXCEPT !.cells =
                             [k \in 1..Len(at) |-> d.rows[i].cells[at[k]]]]] ]

\* df[c] = vals (one value per row): replaces the column, or appends it
set_column(d, c, vals) ==
    IF has_column(d, c)
    THEN [d EXCEPT !.rows =
            [i \in 1..Len(d.rows) |->
                [d.rows[i] EXCEPT !.cells[Position(d.columns, c)] = vals[i]]]]
    ELSE [ columns |-> Append(d.columns, c),
           rows    |-> [i \in 1..Len(d.rows) |->
                          [d.rows[i] EXCEPT !.cells = Append(@, vals[i])]] ]

\* df[c] = v (a scalar)
set_scalar(d, c, v) == set_column(d, c, [i \in 1..Len(d.rows) |-> v])

\* a mutant of select_columns: the frame is handed on as it is
select_columns_unordered(d, order) == d

\* df[order], for labels that all exist
select_columns(d, order) ==
    [ columns |-> order,
      rows    |-> [i \in 1..Len(d.rows) |->
                     [d.rows[i] EXCEPT !.cells =
                         [k \in 1..Len(order) |->
                             d.rows[i].cells[Position(d.columns, order[k])]]]] ]

\* a mutant of dropna: the result of dropna is not assigned
dropna_unassigned(d, c) == d

\* df.dropna(subset=[c])
dropna(d, c) ==
    [d EXCEPT !.rows =
        SelectSeq(d.rows, LAMBDA r : ~isna(r.cells[Position(d.columns, c)]))]

\* a mutant of fillna_frame: the result of fillna is not assigned
fillna_frame_unassigned(d, v) == d

\* df.fillna(v)
fillna_frame(d, v) ==
    [d EXCEPT !.rows =
        [i \in 1..Len(d.rows) |->
            [d.rows[i] EXCEPT !.cells =
                [k \in 1..Len(d.columns) |->
                    IF isna(d.rows[i].cells[k]) THEN v ELSE d.rows[i].cells[k]]]]]

\* series.fillna(v)
fillna(vals, v) == [i \in 1..Len(vals) |-> IF isna(vals[i]) THEN v ELSE vals[i]]

-----------------------------------------------------------------------------
(* Strict schema: the phase functions of data_transformer.py on a frame *)

\* STEP 2 and STEP 3 of load_source_data
strict_frame(cols, rows, rec) ==
    rename(read_csv(cols, rows, rec.usecols_actual), rec.normalization_map)

RECURSIVE inject_constants(_, _)
inject_constants(d, n) ==
    IF n = 0 THEN d
    ELSE set_scalar(inject_constants(d, n - 1),
                    STATIC_KEYS[n], Str(STATIC_VALUES[STATIC_KEYS[n]]))

\* apply_transformations: rename, then one column per CONSTANTS item
transform_strict(d) == inject_constants(rename(d, COLUMN_MAPPING), Len(STATIC_KEYS))

\* the texts pd.to_datetime parses, and the timestamp of each
DATE_TEXTS ==
    [t \in {"2025-12-01", "12/02/2025"} |->
        CASE t = "2025-12-01" -> "2025-12-01 00:00:00"
          [] t = "12/02/2025" -> "2025-12-02 00:00:00"]

\* pd.to_datetime(v, errors='coerce') on one cell
to_datetime(v) ==
    IF "ts" \in DOMAIN v THEN v
    ELSE IF "s" \in DOMAIN v /\ v.s \in DOMAIN DATE_TEXTS
         THEN Timestamp(DATE_TEXTS[v.s])
         ELSE NaT

to_datetime_column(d, c) ==
    IF has_column(d, c)
    THEN set_column(d, c, [i \in 1..Len(d.rows) |-> to_datetime(column(d, c)[i])])
    ELSE d

\* a mutant of clean_strict: the fillna of Closed Date is left out
clean_strict_without_fillna(d) ==
    to_datetime_column(to_datetime_column(dropna(d, "Ticket ID"), "Open Date"), "Closed Date")

\* the body of validate_and_clean
clean_strict(d) ==
    LET kept  == dropna(d, "Ticket ID")
        dated == to_datetime_column(to_datetime_column(kept, "Open Date"), "Closed Date")
    IN  set_column(dated, "Closed Date", fillna(column(dated, "Closed Date"), Str("")))

-----------------------------------------------------------------------------
(* MSM schema: the phase functions of msm_transformer.py on a frame *)

PRIORITY_MAPPING ==
    [k \in {"Not set", "Minor", "Medium", "Major"} |->
        CASE k = "Not set" -> "P3 (Low)"
          [] k = "Minor"   -> "P3 (Low)"
          [] k = "Medium"  -> "P2 (Medium)"
          [] k = "Major"   -> "P1 (High)"]

\* the load of load_jira_data after the header loop
msm_frame(cols, rows, rec) ==
    drop_duplicated_columns(
        rename(read_csv(cols, rows, rec.columns_to_read), rec.column_map))

\* df.get(c, ''): the column, or the empty string for every row
get(d, c) == IF has_column(d, c) THEN column(d, c) ELSE [i \in 1..Len(d.rows) |-> Str("")]

\* series.map(PRIORITY_MAPPING) on one cell
map_priority(v) ==
    IF "s" \in DOMAIN v /\ v.s \in DOMAIN PRIORITY_MAPPING
    THEN Str(PRIORITY_MAPPING[v.s]) ELSE NaN

\* str.upper()
upper(s) == [i \in 1..Len(s) |-> upper_char(s[i])]

\* str(x) for a cell
str(v) == IF "s" \in DOMAIN v THEN Chars(v.s) ELSE <<"n","a","n">>

\* a mutant of resolution_sla: the .upper() is left out
resolution_sla_case_sensitive(v) ==
    IF contains(<<"C","S","I">>, str(v)) THEN Str("Yes") ELSE Str("NA")

\* lambda x: 'Yes' if 'CSI' in str(x).upper() else 'NA'
resolution_sla(v) == IF contains(<<"C","S","I">>, upper(str(v))) THEN Str("Yes") ELSE Str("NA")

\* the texts pd.to_numeric parses, and the number of each
NUMBER_TEXTS == [t \in {"7200", "5454"} |-> CASE t = "7200" -> 7200 [] t = "5454" -> 5454]

\* pd.to_numeric(v, errors='coerce') on one cell
to_numeric(v) ==
    IF "n" \in DOMAIN v THEN v
    ELSE IF "s" \in DOMAIN v /\ v.s \in DOMAIN NUMBER_TEXTS
         THEN IntVal(NUMBER_TEXTS[v.s])
         ELSE NaN

\* a mutant of hours: whole hours
hours_whole(v) == Float2(100 * (v.n \div 3600))

\* (seconds / 3600).round(2), in hundredths of an hour, halves to even
hours(v) ==
    LET q == v.n \div 36
        r == v.n % 36
    IN  Float2(IF r < 18 THEN q
               ELSE IF r > 18 THEN q + 1
               ELSE IF q % 2 = 0 THEN q ELSE q + 1)

time_spent(d) ==
    IF has_column(d, "Worklog")
    THEN [i \in 1..Len(d.rows) |->
            hours(fillna(<<to_numeric(column(d, "Worklog")[i])>>, IntVal(0))[1])]
    ELSE [i \in 1..Len(d.rows) |-> Float2(0)]

\* a mutant of priority: the fillna('P3 (Low)') is left out
priority_without_default(d) ==
    IF has_column(d, "Priority")
    THEN [i \in 1..Len(d.rows) |-> map_priority(column(d, "Priority")[i])]
    ELSE [i \in 1..Len(d.rows) |-> Str("P3 (Low)")]

priority(d) ==
    IF has_column(d, "Priority")
    THEN fillna([i \in 1..Len(d.rows) |-> map_priority(column(d, "Priority")[i])],
                Str("P3 (Low)"))
    ELSE [i \in 1..Len(d.rows) |-> Str("P3 (Low)")]

\* a scalar for every row of d
scalar(d, t) == [i \in 1..Len(d.rows) |-> Str(t)]

\* the column assignments of apply_msm_transformations, in the order made
msm_assignments(d, month) ==
    << <<"S.No", [i \in 1..Len(d.rows) |-> IntVal(i)]>>,
       <<"Tower", get(d, "Project Name")>>,
       <<"Application", scalar(d, "HMOF")>>,
       <<"JIRA ID", get(d, "Issue Key")>>,
       <<"Priority", priority(d)>>,
       <<"Issue Summary", get(d, "Summary")>>,
       <<"Assignee", get(d, "Assignee")>>,
       <<"Platform / Content / Data", get(d, "Platform")>>,
       <<"Status", get(d, "Status")>>,
       <<"Issue Status", get(d, "Status")>>,
       <<"Month", scalar(d, month)>>,
       <<"Issue Creation Time mm/dd/yyyy hh:mm:ss am/pm", get(d, "Created")>>,
       <<"Issue Assigned Time (CTS)mm/dd/yyyy hh:mm:ss am/pm", get(d, "Created")>>,
       <<"CTS Response Time mm/dd/yyyy hh:mm:ss am/pm", get(d, "Updated")>>,
       <<"Response SLA Met?", scalar(d, "Yes")>>,
       <<"CTS Resolution Time mm/dd/yyyy hh:mm:ss am/pm", get(d, "Resolved")>>,
       <<"Resolution SLA Met?",
         [i \in 1..Len(d.rows) |-> resolution_sla(get(d, "Issue Key")[i])]>>,
       <<"Last updated Date", get(d, "Updated")>>,
       <<"Service Category", scalar(d, "")>>,
       <<"Request Type", scalar(d, "")>>,
       <<"Causal Code", scalar(d, "")>>,
       <<"Resolution Code", scalar(d, "")>>,
       <<"High Level Debt Classification", scalar(d, "")>>,
       <<"Technical Debt Classification", scalar(d, "")>>,
       <<"Functional Debt Classification", scalar(d, "")>>,
       <<"Operational Debt Classification", scalar(d, "")>>,
       <<"Knowledge Debt Classification", scalar(d, "")>>,
       <<"Time Spent()", time_spent(d)>> >>

\* apply_msm_transformations: a new frame, indexed 0..len(df)-1 by the S.No
\* assignment; each assignment names a new label, so each appends a column
transform_msm(d, month) ==
    LET a == msm_assignments(d, month)
    IN  [ columns |-> [k \in 1..Len(a) |-> a[k][1]],
          rows    |-> [i \in 1..Len(d.rows) |->
                         [idx |-> i - 1, cells |-> [k \in 1..Len(a) |-> a[k][2][i]]]] ]

\* `for col in MSM_FINAL_COLUMN_ORDER: if col not in df.columns: df[col] = ''`:
\* the labels not in the frame are appended, in the order of the list
ensure_columns(d) ==
    LET absent == SelectSeq(MSM_FINAL_COLUMN_ORDER, LAMBDA c : ~has_column(d, c))
    IN  [ columns |-> d.columns \o absent,
          rows    |-> [i \in 1..Len(d.rows) |->
                         [d.rows[i] EXCEPT !.cells =
                             @ \o [k \in 1..Len(absent) |-> Str("")]]] ]

\* the body of validate_msm_data
clean_msm(d) == fillna_frame(dropna(ensure_columns(d), "JIRA ID"), Str(""))

-----------------------------------------------------------------------------
(* Input files *)

\* header names of the strict header-reconciliation inputs
StrictHeaderPool ==
    { <<"I","s","s","u","e"," ","K","e","y">>,
      <<" ","i","s","s","u","e"," ","k","e","y"," ">>,
      <<"I","s","s","u","e"," ","T","y","p","e">>,
      <<"U","P","D","A","T","E","D">>,
      <<"S","t","a","t","u","s">>,
      <<"R","e","s","o","l","v","e","d">>,
      <<"S","u","m","m","a","r","y">> }

\* header names of the MSM header-reconciliation inputs
MsmHeaderPool ==
    { <<"K","e","y">>,
      <<"I","s","s","u","e"," ","K","e","y">>,
      <<"P","r","o","j","e","c","t">>,
      <<"S","u","m","m","a","r","y">>,
      <<"A","s","s","i","g","n","e","e">>,
      <<"P","r","i","o","r","i","t","y">>,
      <<"C","r","e","a","t","e","d">>,
      <<"C","r","e","a","t","e","d"," ","U","p","d","a","t","e","d">>,
      <<"U","P","D","A","T","E","D">>,
      <<"D","a","t","e"," ","R","e","s","o","l","v","e","d">>,
      <<"R","e","a","s","s","i","g","n","e","e"," ","P","l","a","t","f","o","r","m">>,
      <<"T","i","m","e"," ","S","p","e","n","t">> }

\* the header rows of at most n distinct names of pool (read_csv makes the
\* names of a header row distinct)
RECURSIVE HeaderRows(_, _)
HeaderRows(pool, n) ==
    IF n = 0 THEN {<<>>}
    ELSE LET shorter == HeaderRows(pool, n - 1)
         IN  shorter \cup
             UNION { {Append(r, h) : h \in pool \ Range(r)} :
                     r \in {t \in shorter : Len(t) = n - 1} }

\* header rows of the files whose data rows vary
StrictFiles ==
    { << <<"R","e","s","o","l","v","e","d">>,
         <<"S","u","m","m","a","r","y">>,
         <<" ","i","s","s","u","e"," ","k","e","y"," ">>,
         <<"S","t","a","t","u","s">>,
         <<"U","P","D","A","T","E","D">>,
         <<"I","s","s","u","e"," ","T","y","p","e">> >>,
      << <<"I","s","s","u","e"," ","K","e","y">>,
         <<"I","s","s","u","e"," ","T","y","p","e">>,
         <<"U","P","D","A","T","E","D">>,
         <<"S","t","a","t","u","s">>,
         <<"R","e","s","o","l","v","e","d">> >> }

MsmFiles ==
    { << <<"K","e","y">>,
         <<"P","r","i","o","r","i","t","y">> >>,
      << <<"T","i","m","e"," ","S","p","e","n","t">>,
         <<"I","s","s","u","e"," ","K","e","y">>,
         <<"S","t","a","t","u","s">> >>,
      << <<"S","u","m","m","a","r","y">>,
         <<"P","r","o","j","e","c","t">>,
         <<"A","s","s","i","g","n","e","e">>,
         <<"C","r","e","a","t","e","d"," ","U","p","d","a","t","e","d">> >> }

\* the raw text a cell of the column headed h may hold ("" is an empty field)
CellTexts(h) ==
    LET cl == col_lower(h)
    IN  IF cl = <<"k","e","y">> THEN {"", "CSI-102", "OPS-55"}
        ELSE IF contains(<<"k","e","y">>, cl) THEN {"", "csi-7"}
        ELSE IF contains(<<"r","e","s","o","l","v","e","d">>, cl)
             THEN {"", "12/02/2025", "garbage"}
        ELSE IF contains(<<"u","p","d","a","t","e","d">>, cl)
             THEN {"", "2025-12-01", "garbage"}
        ELSE IF contains(<<"p","r","i","o","r","i","t","y">>, cl)
             THEN {"", "Major", "Medium", "Minor", "Not set", "Blocker"}
        ELSE IF contains(<<"t","i","m","e"," ","s","p","e","n","t">>, cl)
             THEN {"", "7200", "5454", "abc"}
        ELSE IF contains(<<"p","r","o","j","e","c","t">>, cl)
                \/ contains(<<"a","s","s","i","g","n","e","e">>, cl)
             THEN {"", "x"}
        ELSE {"x"}

\* the data rows a file with header row cols may hold
RECURSIVE DataRows(_, _)
DataRows(cols, n) ==
    IF n = 0 THEN {<<>>}
    ELSE {Append(r, t) : r \in DataRows(cols, n - 1), t \in CellTexts(cols[n])}

Tables(cols) ==
    UNION {[1..n -> DataRows(cols, Len(cols))] : n \in 0..MaxRows}

\* one data row with text in every field
FullRow(cols) == [k \in 1..Len(cols) |-> "x"]

Months == {"November", "December"}

-----------------------------------------------------------------------------
(* State *)

NoFrame == [none |-> TRUE]
NoRecon == [none |-> TRUE]
NoExc   == "none"

None == "None"
NoFile == [absent |-> TRUE]

fetchVars == <<creds, fpc, next_page_token, all_issues, requests, responses,
               beyond, csv, fetch_result>>

\* fetch_jira_issues is not running
NotFetching ==
    /\ creds = "ok"
    /\ fpc = "idle"
    /\ next_page_token = None
    /\ all_issues = <<>>
    /\ requests = <<>>
    /\ responses = <<>>
    /\ beyond = FALSE
    /\ csv = NoFile
    /\ fetch_result = "none"

NoRun == [none |-> TRUE]

Workers == {1, 2}
NoRead == [none |-> TRUE]

workerVars == <<w_mode, w_pc, w_read, temp_csv>>

guiVars == <<run_disabled, events>>

\* no worker thread has been started
NoWorkers ==
    /\ w_mode = [w \in Workers |-> "file"]
    /\ w_pc = [w \in Workers |-> "none"]
    /\ w_read = [w \in Workers |-> NoRead]
    /\ temp_csv = NoFile
    /\ run_disabled = FALSE
    /\ events = 0

Started ==
    /\ run = 1
    /\ first = NoRun
    /\ NoWorkers
    /\ pc = "load"
    /\ df = NoFrame
    /\ recon = NoRecon
    /\ rows_read = FALSE
    /\ phases = <<>>
    /\ completed = {}
    /\ failed = 0
    /\ log = <<>>
    /\ exc = NoExc
    /\ writes = <<>>
    /\ result = "none"

\* a run on a file whose data rows vary, or on a path that does not exist
Init ==
    /\ schema \in {"strict", "msm"}
    /\ now_month \in (IF schema = "msm" THEN Months ELSE {"November"})
    /\ \/ /\ file_exists = FALSE
          /\ file_columns = <<>>
          /\ file_rows = <<>>
       \/ /\ file_exists = TRUE
          /\ file_columns \in (IF schema = "strict" THEN StrictFiles ELSE MsmFiles)
          /\ file_rows \in Tables(file_columns)
    /\ Started
    /\ NotFetching

\* a run on a file whose header row varies
InitHeaders ==
    /\ schema \in {"strict", "msm"}
    /\ now_month = "November"
    /\ \/ /\ file_exists = FALSE
          /\ file_columns = <<>>
          /\ file_rows = <<>>
       \/ /\ file_exists = TRUE
          /\ file_columns \in
                (IF schema = "strict"
                 THEN HeaderRows(StrictHeaderPool, MaxStrictHeaders)
                 ELSE HeaderRows(MsmHeaderPool, MaxMsmHeaders)) \ {<<>>}
          /\ file_rows = <<FullRow(file_columns)>>
    /\ Started
    /\ NotFetching

-----------------------------------------------------------------------------
(* Strict schema: run_transformation_pipeline and the functions it calls *)

\* what the phase functions leave alone: the input file, the clock, the
\* state of the fetch and the record of an earlier call
inputVars == <<schema, file_exists, file_columns, file_rows, now_month, fetchVars,
               run, first, workerVars, guiVars>>

\* the error load_source_data logs and raises for unresolved required columns
missing_error(rec, cols) ==
    [ level        |-> "error",
      msg          |-> "Missing required columns (checked case-insensitive)",
      missing_cols |-> rec.missing_cols,
      headers      |-> cols ]

load_source_data ==
    /\ pc = "load"
    /\ schema = "strict"
    /\ phases' = Append(phases, 1)
    /\ IF ~file_exists
       THEN /\ log' = Append(log, [level |-> "error", msg |-> "File not found"])
            /\ exc' = "FileNotFoundError"
            /\ failed' = 1
            /\ pc' = "except"
            /\ UNCHANGED <<df, recon, rows_read, completed>>
       ELSE /\ recon' = strict_reconcile(file_columns)
            /\ IF recon'.missing_cols # <<>>
               THEN /\ log' = log \o << missing_error(recon', file_columns),
                                        missing_error(recon', file_columns) >>
                    /\ exc' = "ValueError"
                    /\ failed' = 1
                    /\ pc' = "except"
                    /\ UNCHANGED <<df, rows_read, completed>>
               ELSE /\ df' = strict_frame(file_columns, file_rows, recon')
                    /\ rows_read' = TRUE
                    /\ completed' = completed \cup {1}
                    /\ pc' = "transform"
                    /\ UNCHANGED <<log, exc, failed>>
    /\ UNCHANGED <<inputVars, writes, result>>

\* a mutant of apply_transformations: the entry point goes on to the write
apply_transformations_then_write ==
    /\ pc = "transform"
    /\ schema = "strict"
    /\ phases' = Append(phases, 2)
    /\ df' = transform_strict(df)
    /\ completed' = completed \cup {2}
    /\ pc' = "write"
    /\ UNCHANGED <<inputVars, recon, rows_read, failed, log, exc, writes, result>>

apply_transformations ==
    /\ pc = "transform"
    /\ schema = "strict"
    /\ phases' = Append(phases, 2)
    /\ df' = transform_strict(df)
    /\ completed' = completed \cup {2}
    /\ pc' = "validate"
    /\ UNCHANGED <<inputVars, recon, rows_read, failed, log, exc, writes, result>>

\* the warning validate_and_clean / validate_msm_data logs when rows went
dropped_warning(before, after) ==
    IF Len(after.rows) < Len(before.rows)
    THEN << [ level |-> "warning", msg |-> "Dropped rows",
              count |-> Len(before.rows) - Len(after.rows) ] >>
    ELSE <<>>

validate_and_clean ==
    /\ pc = "validate"
    /\ schema = "strict"
    /\ phases' = Append(phases, 3)
    /\ df' = clean_strict(df)
    /\ log' = log \o dropped_warning(df, df')
    /\ completed' = completed \cup {3}
    /\ pc' = "write"
    /\ UNCHANGED <<inputVars, recon, rows_read, failed, exc, writes, result>>

\* save_target_file, and the entry point returning what it returned: df[...]
\* and to_excel are inside one try; any exception gives False
save_target_file ==
    /\ pc = "write"
    /\ schema = "strict"
    /\ phases' = Append(phases, 4)
    /\ completed' = completed \cup {4}
    /\ IF ~(Range(FINAL_COLUMN_ORDER) \subseteq Range(df.columns))
       THEN /\ log' = Append(log, [level |-> "error", msg |-> "Failed to write output file"])
            /\ failed' = 4
            /\ result' = "False"
            /\ UNCHANGED writes
       ELSE \E ok \in BOOLEAN :
            /\ writes' = Append(writes, [ writer |-> "to_excel", ok |-> ok,
                                          table  |-> select_columns(df, FINAL_COLUMN_ORDER) ])
            /\ IF ok
               THEN /\ result' = "True"
                    /\ UNCHANGED <<log, failed>>
               ELSE /\ log' = Append(log, [level |-> "error", msg |-> "Failed to write output file"])
                    /\ failed' = 4
                    /\ result' = "False"
    /\ pc' = "done"
    /\ UNCHANGED <<inputVars, df, recon, rows_read, exc>>

\* a mutant of the except clause: `except ValueError`, so any other exception
\* leaves the entry point
run_transformation_pipeline_except_value_error ==
    /\ pc = "except"
    /\ schema = "strict"
    /\ IF exc = "ValueError"
       THEN /\ log' = Append(log, [level |-> "error", msg |-> "Pipeline failed", cause |-> exc])
            /\ exc' = NoExc
            /\ result' = "False"
       ELSE /\ result' = "escaped"
            /\ UNCHANGED <<log, exc>>
    /\ pc' = "done"
    /\ UNCHANGED <<inputVars, df, recon, rows_read, phases, completed, failed, writes>>

\* the except clause of run_transformation_pipeline
run_transformation_pipeline_except ==
    /\ pc = "except"
    /\ schema = "strict"
    /\ log' = Append(log, [level |-> "error", msg |-> "Pipeline failed", cause |-> exc])
    /\ exc' = NoExc
    /\ result' = "False"
    /\ pc' = "done"
    /\ UNCHANGED <<inputVars, df, recon, rows_read, phases, completed, failed, writes>>

-----------------------------------------------------------------------------
(* MSM schema: run_msm_transformation_pipeline and the functions it calls *)

load_jira_data ==
    /\ pc = "load"
    /\ schema = "msm"
    /\ phases' = Append(phases, 1)
    /\ IF ~file_exists
       THEN /\ log' = Append(log, [level |-> "error", msg |-> "File not found"])
            /\ exc' = "FileNotFoundError"
            /\ failed' = 1
            /\ pc' = "except"
            /\ UNCHANGED <<df, recon, rows_read, completed>>
       ELSE /\ recon' = msm_reconcile(file_columns)
            /\ df' = msm_frame(file_columns, file_rows, recon')
            /\ rows_read' = TRUE
            /\ completed' = completed \cup {1}
            /\ pc' = "transform"
            /\ UNCHANGED <<log, exc, failed>>
    /\ UNCHANGED <<inputVars, writes, result>>

\* a mutant of apply_msm_transformations: S.No goes on from the rows of
\* the call before
apply_msm_transformations_numbering_on ==
    /\ pc = "transform"
    /\ schema = "msm"
    /\ phases' = Append(phases, 2)
    /\ LET t == transform_msm(df, now_month)
           before == IF first = NoRun \/ first.table = NoFrame THEN 0
                     ELSE Len(first.table.rows)
       IN  df' = set_column(t, "S.No", [i \in 1..Len(t.rows) |-> IntVal(before + i)])
    /\ completed' = completed \cup {2}
    /\ pc' = "validate"
    /\ UNCHANGED <<inputVars, recon, rows_read, failed, log, exc, writes, result>>

apply_msm_transformations ==
    /\ pc = "transform"
    /\ schema = "msm"
    /\ phases' = Append(phases, 2)
    /\ df' = transform_msm(df, now_month)
    /\ completed' = completed \cup {2}
    /\ pc' = "validate"
    /\ UNCHANGED <<inputVars, recon, rows_read, failed, log, exc, writes, result>>

validate_msm_data ==
    /\ pc = "validate"
    /\ schema = "msm"
    /\ phases' = Append(phases, 3)
    /\ df' = clean_msm(df)
    /\ log' = log \o dropped_warning(df, df')
    /\ completed' = completed \cup {3}
    /\ pc' = "write"
    /\ UNCHANGED <<inputVars, recon, rows_read, failed, exc, writes, result>>

\* save_msm_file, and the entry point returning what it returned: the styled
\* openpyxl write, and in its except clause the plain to_excel write
save_msm_file ==
    /\ pc = "write"
    /\ schema = "msm"
    /\ phases' = Append(phases, 4)
    /\ completed' = completed \cup {4}
    /\ IF ~(Range(MSM_FINAL_COLUMN_ORDER) \subseteq Range(df.columns))
       THEN /\ log' = log \o << [level |-> "error", msg |-> "Failed to write MSM output file"],
                                [level |-> "error", msg |-> "Fallback export also failed"] >>
            /\ failed' = 4
            /\ result' = "False"
            /\ UNCHANGED writes
       ELSE LET table == select_columns(df, MSM_FINAL_COLUMN_ORDER)
                styled(ok) == [writer |-> "openpyxl", ok |-> ok, table |-> table]
                plain(ok)  == [writer |-> "to_excel", ok |-> ok, table |-> table]
            IN  \E styled_ok \in BOOLEAN, plain_ok \in BOOLEAN :
                IF styled_ok
                THEN /\ plain_ok
                     /\ writes' = Append(writes, styled(TRUE))
                     /\ result' = "True"
                     /\ UNCHANGED <<log, failed>>
                ELSE /\ writes' = writes \o <<styled(FALSE), plain(plain_ok)>>
                     /\ IF plain_ok
                        THEN /\ log' = Append(log, [level |-> "error",
                                                    msg |-> "Failed to write MSM output file"])
                             /\ result' = "True"
                             /\ UNCHANGED failed
                        ELSE /\ log' = log \o
                                   << [level |-> "error", msg |-> "Failed to write MSM output file"],
                                      [level |-> "error", msg |-> "Fallback export also failed"] >>
                             /\ failed' = 4
                             /\ result' = "False"
    /\ pc' = "done"
    /\ UNCHANGED <<inputVars, df, recon, rows_read, exc>>

\* the except clause of run_msm_transformation_pipeline
run_msm_transformation_pipeline_except ==
    /\ pc = "except"
    /\ schema = "msm"
    /\ log' = Append(log, [level |-> "error", msg |-> "MSM Pipeline failed", cause |-> exc])
    /\ exc' = NoExc
    /\ result' = "False"
    /\ pc' = "done"
    /\ UNCHANGED <<inputVars, df, recon, rows_read, phases, completed, failed, writes>>

-----------------------------------------------------------------------------

Next ==
    \/ load_source_data
    \/ apply_transformations
    \/ validate_and_clean
    \/ save_target_file
    \/ run_transformation_pipeline_except
    \/ load_jira_data
    \/ apply_msm_transformations
    \/ validate_msm_data
    \/ save_msm_file
    \/ run_msm_transformation_pipeline_except

Spec == Init /\ [][Next]_vars

SpecHeaders == InitHeaders /\ [][Next]_vars

-----------------------------------------------------------------------------
(* An entry point called twice on the same input *)

\* what load, transform and validate came to: the phases that returned, the
\* phase that raised, and the table validate returned
PipelineOutcome ==
    [ completed |-> completed \cap {1, 2, 3},
      failed    |-> IF failed \in {1, 2, 3} THEN failed ELSE 0,
      table     |-> IF 3 \in completed THEN df ELSE NoFrame ]

\* the entry point has returned and is called again with the same
\* arguments: its locals are new, the input file, the clock and the logger
\* are what the first call left
rerun ==
    /\ pc = "done"
    /\ run = 1
    /\ run' = 2
    /\ first' = PipelineOutcome
    /\ pc' = "load"
    /\ df' = NoFrame
    /\ recon' = NoRecon
    /\ rows_read' = FALSE
    /\ phases' = <<>>
    /\ completed' = {}
    /\ failed' = 0
    /\ exc' = NoExc
    /\ writes' = <<>>
    /\ result' = "none"
    /\ UNCHANGED <<schema, file_exists, file_columns, file_rows, now_month, log,
                   fetchVars, workerVars, guiVars>>

NextTwice ==
    \/ Next
    \/ rerun

\* the calls are made on a file of either schema with five or three
\* columns, or on a path that does not exist
InitTwice ==
    /\ schema \in {"strict", "msm"}
    /\ now_month = "November"
    /\ \/ /\ file_exists = FALSE
          /\ file_columns = <<>>
          /\ file_rows = <<>>
       \/ /\ file_exists = TRUE
          /\ file_columns \in (IF schema = "strict"
                               THEN {f \in StrictFiles : Len(f) = 5}
                               ELSE {f \in MsmFiles : Len(f) = 3})
          /\ file_rows \in Tables(file_columns)
    /\ Started
    /\ NotFetching

SpecTwice == InitTwice /\ [][NextTwice]_vars

-----------------------------------------------------------------------------
(* jira_fetcher.py: fetch_jira_issues *)

pipelineVars == <<schema, file_exists, file_columns, file_rows, now_month, pc, df,
                  recon, rows_read, phases, completed, failed, log, exc, writes,
                  result, run, first, workerVars, guiVars>>

\* the status codes a response may carry
Statuses == {200, 204, 500}

\* the continuation tokens a response may carry
Tokens == {"t1", "t2"}

\* the issues of the j-th response, a page of n issues
page(j, n) == [k \in 1..n |-> <<j, k>>]

\* the responses the server may give to the j-th POST
Responses(j) ==
    [ status : Statuses,
      issues : {page(j, n) : n \in 0..MaxPageIssues},
      nextPageToken : Tokens \cup {None} ]

\* all_issues holds no more than the recorded requests can return
MaxIssues == MaxRequests * MaxPageIssues
extend(all, issues) == SubSeq(all \o issues, 1, MinOf({Len(all \o issues), MaxIssues}))

\* a mutant of payload_token: the token is not put in the payload
payload_token_dropped(tok) == None

\* `if next_page_token: payload["nextPageToken"] = next_page_token`
payload_token(tok) == tok

\* a run of fetch_jira_issues, for each state of the credentials
InitFetch ==
    /\ schema = "msm"
    /\ now_month = "November"
    /\ file_exists = FALSE
    /\ file_columns = <<>>
    /\ file_rows = <<>>
    /\ Started
    /\ creds \in {"ok", "no_credentials", "no_authors"}
    /\ fpc = "setup"
    /\ next_page_token = None
    /\ all_issues = <<>>
    /\ requests = <<>>
    /\ responses = <<>>
    /\ beyond = FALSE
    /\ csv = NoFile
    /\ fetch_result = "none"

\* lines 20-64: the credentials are checked outside the try
fetch_setup ==
    /\ fpc = "setup"
    /\ IF creds = "ok"
       THEN /\ fpc' = "loop"
            /\ fetch_result' = fetch_result
       ELSE /\ fpc' = "raised"
            /\ fetch_result' = "ValueError"
    /\ all_issues' = <<>>
    /\ next_page_token' = None
    /\ UNCHANGED <<pipelineVars, creds, requests, responses, beyond, csv>>

\* one iteration of `while True`: a POST and what is done with its response
fetch_page ==
    /\ fpc = "loop"
    /\ \E response \in Responses(IF beyond THEN MaxRequests + 1 ELSE Len(requests) + 1) :
          /\ IF Len(requests) < MaxRequests
             THEN /\ requests' = Append(requests, payload_token(next_page_token))
                  /\ responses' = Append(responses, response)
                  /\ beyond' = beyond
             ELSE /\ beyond' = TRUE
                  /\ UNCHANGED <<requests, responses>>
          /\ IF response.status # 200
             THEN /\ fpc' = "raised"
                  /\ fetch_result' = "Exception"
                  /\ UNCHANGED <<next_page_token, all_issues>>
             ELSE /\ next_page_token' = response.nextPageToken
                  /\ fetch_result' = fetch_result
                  /\ IF response.issues = <<>>
                     THEN /\ fpc' = "flatten"
                          /\ all_issues' = all_issues
                     ELSE /\ all_issues' = extend(all_issues, response.issues)
                          /\ fpc' = IF response.nextPageToken = None
                                    THEN "flatten" ELSE "loop"
    /\ UNCHANGED <<pipelineVars, creds, csv>>

\* lines 104-157: no issue returns False; else the rows are written, unless
\* the write raises
fetch_save ==
    /\ fpc = "flatten"
    /\ IF all_issues = <<>>
       THEN /\ fpc' = "returned"
            /\ fetch_result' = "False"
            /\ csv' = csv
       ELSE \E to_csv_ok \in BOOLEAN :
               IF to_csv_ok
               THEN /\ fpc' = "returned"
                    /\ fetch_result' = "True"
                    /\ csv' = [rows |-> all_issues]
               ELSE /\ fpc' = "raised"
                    /\ fetch_result' = "OSError"
                    /\ csv' = csv
    /\ UNCHANGED <<pipelineVars, creds, next_page_token, all_issues, requests,
                   responses, beyond>>

NextFetch ==
    \/ fetch_setup
    \/ fetch_page
    \/ fetch_save

SpecFetch == InitFetch /\ [][NextFetch]_vars

\* the thread that runs fetch_jira_issues keeps running it
SpecFetchFair == SpecFetch /\ WF_vars(NextFetch)

-----------------------------------------------------------------------------
(* main_gui.py: two worker threads, run_wrapper_file or run_wrapper_api *)

\* the table worker w was given (file mode) or fetched (api mode)
Own(w) == [owner |-> w]

\* a dump left by an earlier run of the program
Stale == [owner |-> 0]

InitWorkers ==
    /\ schema = "msm"
    /\ now_month = "November"
    /\ file_exists = FALSE
    /\ file_columns = <<>>
    /\ file_rows = <<>>
    /\ run = 1
    /\ first = NoRun
    /\ pc = "load"
    /\ df = NoFrame
    /\ recon = NoRecon
    /\ rows_read = FALSE
    /\ phases = <<>>
    /\ completed = {}
    /\ failed = 0
    /\ log = <<>>
    /\ exc = NoExc
    /\ writes = <<>>
    /\ result = "none"
    /\ NotFetching
    /\ w_mode \in [Workers -> {"file", "api"}]
    /\ w_pc = [w \in Workers |-> IF w_mode[w] = "file" THEN "pipeline" ELSE "fetch"]
    /\ w_read = [w \in Workers |-> NoRead]
    /\ temp_csv \in {NoFile, Stale}
    /\ run_disabled = TRUE
    /\ events = 0

\* what the worker threads' own steps leave alone
notWorkerVars == <<schema, file_exists, file_columns, file_rows, now_month, pc, df,
                   recon, rows_read, phases, completed, failed, log, exc, writes,
                   result, run, first, fetchVars, run_disabled>>

\* run_wrapper_file: the pipeline loads the input file the worker was given
run_wrapper_file(w) ==
    /\ w_mode[w] = "file"
    /\ w_pc[w] = "pipeline"
    /\ w_read' = [w_read EXCEPT ![w] = Own(w)]
    /\ w_pc' = [w_pc EXCEPT ![w] = "post"]
    /\ UNCHANGED <<notWorkerVars, events, w_mode, temp_csv>>

\* run_wrapper_api, line 217: fetch_jira_issues writes the dump and returns
\* True, or finds no issue and returns False, or raises
run_wrapper_api_fetch(w) ==
    /\ w_mode[w] = "api"
    /\ w_pc[w] = "fetch"
    /\ \E outcome \in {"True", "False", "raised"} :
          /\ temp_csv' = IF outcome = "True" THEN Own(w) ELSE temp_csv
          /\ w_pc' = [w_pc EXCEPT ![w] = CASE outcome = "True"  -> "pipeline"
                                            [] outcome = "False" -> "post"
                                            [] OTHER             -> "raised"]
    /\ UNCHANGED <<notWorkerVars, events, w_mode, w_read>>

\* what the pipeline of worker w loads from "Jira_API_Dump.csv"
dump_read(w) == IF temp_csv = NoFile THEN [missing |-> TRUE] ELSE temp_csv

\* run_wrapper_api, lines 220-221: the pipeline loads the dump
run_wrapper_api_pipeline(w) ==
    /\ w_mode[w] = "api"
    /\ w_pc[w] = "pipeline"
    /\ w_read' = [w_read EXCEPT ![w] = dump_read(w)]
    /\ w_pc' = [w_pc EXCEPT ![w] = "exists"]
    /\ UNCHANGED <<notWorkerVars, events, w_mode, temp_csv>>

\* run_wrapper_api, line 222: os.path.exists(temp_csv)
run_wrapper_api_exists(w) ==
    /\ w_mode[w] = "api"
    /\ w_pc[w] = "exists"
    /\ w_pc' = [w_pc EXCEPT ![w] = IF temp_csv = NoFile THEN "post" ELSE "remove"]
    /\ UNCHANGED <<notWorkerVars, events, w_mode, w_read, temp_csv>>

\* run_wrapper_api, line 223: os.remove(temp_csv), which raises when the
\* file is gone
run_wrapper_api_remove(w) ==
    /\ w_mode[w] = "api"
    /\ w_pc[w] = "remove"
    /\ w_pc' = [w_pc EXCEPT ![w] = IF temp_csv = NoFile THEN "raised" ELSE "post"]
    /\ temp_csv' = NoFile
    /\ UNCHANGED <<notWorkerVars, events, w_mode, w_read>>

\* window.write_event_value('-THREAD-DONE-', '')
thread_done(w) ==
    /\ w_pc[w] = "post"
    /\ w_pc' = [w_pc EXCEPT ![w] = "done"]
    /\ events' = events + 1
    /\ UNCHANGED <<notWorkerVars, w_mode, w_read, temp_csv>>

NextWorkers ==
    \E w \in Workers :
        \/ run_wrapper_file(w)
        \/ run_wrapper_api_fetch(w)
        \/ run_wrapper_api_pipeline(w)
        \/ run_wrapper_api_exists(w)
        \/ run_wrapper_api_remove(w)
        \/ thread_done(w)

SpecWorkers == InitWorkers /\ [][NextWorkers]_vars

-----------------------------------------------------------------------------
(* main_gui.py: the event loop of main, with the worker thread it starts *)

\* the window is open, no thread was started, and the working directory
\* may hold a dump from an earlier run
InitGui ==
    /\ schema = "msm"
    /\ now_month = "November"
    /\ file_exists = FALSE
    /\ file_columns = <<>>
    /\ file_rows = <<>>
    /\ run = 1
    /\ first = NoRun
    /\ pc = "load"
    /\ df = NoFrame
    /\ recon = NoRecon
    /\ rows_read = FALSE
    /\ phases = <<>>
    /\ completed = {}
    /\ failed = 0
    /\ log = <<>>
    /\ exc = NoExc
    /\ writes = <<>>
    /\ result = "none"
    /\ NotFetching
    /\ w_mode = [w \in Workers |-> "file"]
    /\ w_pc = [w \in Workers |-> "none"]
    /\ w_read = [w \in Workers |-> NoRead]
    /\ temp_csv \in {NoFile, Stale}
    /\ run_disabled = FALSE
    /\ events = 0

\* event '-RUN-', which a disabled button does not send: with the input
\* file or the API fields missing an error is shown; else the button is
\* disabled and a worker thread is started
run_click ==
    /\ ~run_disabled
    /\ \E mode \in {"file", "api"}, filled \in BOOLEAN :
          IF ~filled
          THEN UNCHANGED <<workerVars, guiVars>>
          ELSE /\ run_disabled' = TRUE
               /\ \E w \in Workers :
                     /\ w_pc[w] \in {"none", "done"}
                     /\ w_mode' = [w_mode EXCEPT ![w] = mode]
                     /\ w_pc' = [w_pc EXCEPT ![w] =
                                    IF mode = "file" THEN "pipeline" ELSE "fetch"]
                     /\ w_read' = [w_read EXCEPT ![w] = NoRead]
               /\ UNCHANGED <<temp_csv, events>>
    /\ UNCHANGED <<schema, file_exists, file_columns, file_rows, now_month, pc, df,
                   recon, rows_read, phases, completed, failed, log, exc, writes,
                   result, run, first, fetchVars>>

\* event '-THREAD-DONE-': the button is enabled again
gui_thread_done ==
    /\ events > 0
    /\ events' = events - 1
    /\ run_disabled' = FALSE
    /\ UNCHANGED <<schema, file_exists, file_columns, file_rows, now_month, pc, df,
                   recon, rows_read, phases, completed, failed, log, exc, writes,
                   result, run, first, fetchVars, workerVars>>

\* a step of a worker thread
worker_step ==
    \E w \in Workers :
        \/ run_wrapper_file(w)
        \/ run_wrapper_api_fetch(w)
        \/ run_wrapper_api_pipeline(w)
        \/ run_wrapper_api_exists(w)
        \/ run_wrapper_api_remove(w)
        \/ thread_done(w)

NextGui ==
    \/ run_click
    \/ gui_thread_done
    \/ worker_step

SpecGui == InitGui /\ [][NextGui]_vars

\* a started thread keeps running, and the event loop reads the events
\* written to the window; the user need not click
SpecGuiFair == SpecGui /\ WF_vars(worker_step) /\ WF_vars(gui_thread_done)

-----------------------------------------------------------------------------
(* What the claims speak of *)

IsStrict == schema = "strict"
IsMsm    == schema = "msm"

\* the loader's header loop has run
Reconciled == recon # NoRecon

\* the schema's published column list
PublishedOrder == IF IsStrict THEN FINAL_COLUMN_ORDER ELSE MSM_FINAL_COLUMN_ORDER

\* h is the name r in some casing, with optional surrounding whitespace
IsVariantOf(h, r) ==
    LET t == strip(h)
    IN  /\ Len(t) = Len(Chars(r))
        /\ \A i \in 1..Len(t) : lower_char(t[i]) = lower_char(Chars(r)[i])

\* the required names no header is a variant of, in the order of COLUMN_MAPPING
Unresolved ==
    SelectSeq(COLUMN_MAPPING_KEYS,
              LAMBDA r : \A p \in 1..Len(file_columns) : ~IsVariantOf(file_columns[p], r))

\* the required names some header is a variant of
Resolved == SelectSeq(COLUMN_MAPPING_KEYS, LAMBDA r : \A u \in Range(Unresolved) : u # r)

NoDuplicates(seq) == \A i, j \in 1..Len(seq) : i # j => seq[i] # seq[j]

-----------------------------------------------------------------------------
(* C1: every table handed to a spreadsheet writer has exactly the columns   *)
(* of the schema's published list, in the published order (8 for the strict *)
(* schema, 28 for the MSM schema), each row has one cell per column, the    *)
(* static columns carry their own values, and a run that starts the write   *)
(* phase hands such a table over.                                           *)
C1_PublishedColumns ==
    /\ \A w \in 1..Len(writes) :
          LET t == writes[w].table
          IN  /\ t.columns = PublishedOrder
              /\ Len(t.columns) = (IF IsStrict THEN 8 ELSE 28)
              /\ \A i \in 1..Len(t.rows) :
                    /\ Len(t.rows[i].cells) = Len(PublishedOrder)
                    /\ IF IsStrict
                       THEN /\ t.rows[i].cells[4] = Str("NONE")
                            /\ t.rows[i].cells[6] = Str("HMOF")
                            /\ t.rows[i].cells[7] = Str("HMH Support Group")
                       ELSE /\ t.rows[i].cells[3] = Str("HMOF")
                            /\ t.rows[i].cells[11] = Str(now_month)
                            /\ t.rows[i].cells[15] = Str("Yes")
    /\ Len(phases) = 4 => writes # <<>>

\* a strict run handed rows to the writer; the file had a column beyond the
\* required five and the frame before selection was in another order
C1_Witness ==
    /\ IsStrict
    /\ writes # <<>>
    /\ Len(writes[1].table.rows) > 0
    /\ Len(file_columns) > Len(COLUMN_MAPPING_KEYS)
    /\ df.columns # FINAL_COLUMN_ORDER

-----------------------------------------------------------------------------
(* C2: header reconciliation is one-to-one in both loaders (no source       *)
(* column is bound to two fields, no field to two source columns), and in   *)
(* the strict loader, when every required name occurs among the headers in  *)
(* some casing with optional surrounding whitespace, every field is bound   *)
(* and the load raises nothing.                                             *)
C2_OneToOneAndComplete ==
    /\ (IsStrict /\ Reconciled) =>
          LET bound == SelectSeq(COLUMN_MAPPING_KEYS,
                                 LAMBDA r : \A q \in 1..Len(recon.missing_cols) :
                                               recon.missing_cols[q] # r)
          IN  /\ Len(recon.usecols_actual) = Len(bound)
              /\ NoDuplicates(recon.usecols_actual)
              /\ Range(recon.usecols_actual) \subseteq Range(file_columns)
              /\ DOMAIN recon.normalization_map = Range(recon.usecols_actual)
              /\ \A i \in 1..Len(bound) :
                    recon.normalization_map[recon.usecols_actual[i]] = bound[i]
    /\ (IsMsm /\ Reconciled) =>
          /\ NoDuplicates(recon.columns_to_read)
          /\ Range(recon.columns_to_read) \subseteq Range(file_columns)
          /\ DOMAIN recon.column_map = Range(recon.columns_to_read)
          /\ \A c, e \in DOMAIN recon.column_map :
                c # e => recon.column_map[c] # recon.column_map[e]
          /\ recon.found_columns = {recon.column_map[c] : c \in DOMAIN recon.column_map}
    /\ (IsStrict /\ file_exists /\ Unresolved = <<>> /\ pc # "load") =>
          /\ recon.missing_cols = <<>>
          /\ Len(recon.usecols_actual) = Len(COLUMN_MAPPING_KEYS)
          /\ 1 \in completed
          /\ failed # 1
          /\ pc # "except"

\* a strict load that bound all five fields although two headers are
\* variants of the same required name
C2_Witness ==
    /\ IsStrict
    /\ pc = "transform"
    /\ Len(recon.usecols_actual) = Len(COLUMN_MAPPING_KEYS)
    /\ \E p, q \in 1..Len(file_columns) :
          /\ p # q
          /\ IsVariantOf(file_columns[p], "Issue Key")
          /\ IsVariantOf(file_columns[q], "Issue Key")

-----------------------------------------------------------------------------
(* C3: strict schema, a header row in which some required column cannot be  *)
(* resolved: the run returns False, the error logged names every missing    *)
(* required field and the observed header row, and no data row is read, no  *)
(* later phase starts and nothing is handed to a writer.                    *)
C3_MissingRequiredAborts ==
    (IsStrict /\ file_exists /\ Unresolved # <<>>) =>
        /\ ~rows_read
        /\ df = NoFrame
        /\ writes = <<>>
        /\ Len(phases) <= 1
        /\ result # "True"
        /\ pc \in {"load", "except", "done"}
        /\ pc \in {"except", "done"} =>
              \E k \in 1..Len(log) :
                  /\ log[k].level = "error"
                  /\ "missing_cols" \in DOMAIN log[k]
                  /\ log[k].missing_cols = Unresolved
                  /\ log[k].headers = file_columns
        /\ pc = "done" => result = "False"

\* a strict run that ended with two or more required columns unresolved
C3_Witness ==
    /\ IsStrict
    /\ file_exists
    /\ Len(Unresolved) >= 2
    /\ Resolved # <<>>
    /\ pc = "done"
    /\ result = "False"

-----------------------------------------------------------------------------
(* C4: first match wins, in both loaders: a bound field is bound to the     *)
(* first header, in file order, that satisfies the field's match rule and   *)
(* is not bound to another field.                                           *)

\* the field the loader bound column c to
BoundField(c) ==
    IF IsStrict THEN recon.normalization_map[c] ELSE recon.column_map[c]

BoundColumns ==
    IF IsStrict THEN Range(recon.usecols_actual) ELSE Range(recon.columns_to_read)

\* the loader's match rule of field f on header h
Matches(f, h) ==
    IF IsStrict THEN col_lower(h) = col_lower(Chars(f))
    ELSE field_matches(f, col_lower(h))

FirstMatchOf(c) ==
    \A p \in 1..Len(file_columns) :
        (/\ Matches(BoundField(c), file_columns[p])
         /\ file_columns[p] \in BoundColumns => BoundField(file_columns[p]) = BoundField(c))
        => Position(file_columns, c) <= p

C4_FirstMatchWins ==
    (Reconciled /\ 1 \in completed) => \A c \in BoundColumns : FirstMatchOf(c)

\* the same statement of the MSM loader alone
C4_MsmFirstMatchWins == (IsMsm /\ Reconciled) => \A c \in BoundColumns : FirstMatchOf(c)

\* an MSM load in which two headers satisfy the rule of one field
C4_MsmWitness ==
    /\ IsMsm
    /\ Reconciled
    /\ \E c \in BoundColumns, p \in 1..Len(file_columns) :
          /\ file_columns[p] # c
          /\ Matches(BoundField(c), file_columns[p])

-----------------------------------------------------------------------------
(* C5: in the MSM loader the binding the column scan computes equals the    *)
(* binding obtained field by field: take the fields in the priority order   *)
(* Issue Key, Project Name, Summary, Assignee, Priority, Status, Platform,  *)
(* Created, Updated, Resolved, Worklog and bind each to the first column,   *)
(* in header order, that satisfies its predicate and is not already bound   *)
(* to an earlier field.                                                     *)

PriorityOrder ==
    <<"Issue Key", "Project Name", "Summary", "Assignee", "Priority", "Status",
      "Platform", "Created", "Updated", "Resolved", "Worklog">>

\* the pairs <<column, field>> bound for the first n fields of the order
RECURSIVE FieldByField(_, _)
FieldByField(cols, n) ==
    IF n = 0 THEN {}
    ELSE LET earlier == FieldByField(cols, n - 1)
             taken   == {b[1] : b \in earlier}
             free    == {p \in 1..Len(cols) :
                            /\ field_matches(PriorityOrder[n], col_lower(cols[p]))
                            /\ cols[p] \notin taken}
         IN  IF free = {} THEN earlier
             ELSE earlier \cup {<<cols[MinOf(free)], PriorityOrder[n]>>}

C5_ScanEqualsFieldByField ==
    (IsMsm /\ Reconciled) =>
        LET spec == FieldByField(file_columns, Len(PriorityOrder))
        IN  /\ {<<c, recon.column_map[c]>> : c \in DOMAIN recon.column_map} = spec
            /\ recon.columns_to_read =
                  SelectSeq(file_columns, LAMBDA h : h \in {b[1] : b \in spec})

\* a load in which a column that satisfies the predicates of two fields went
\* to the later field, the earlier one being bound to a column before it
C5_Witness ==
    /\ IsMsm
    /\ Reconciled
    /\ \E c \in DOMAIN recon.column_map :
          \E k \in 1..Len(PriorityOrder) :
              /\ field_matches(PriorityOrder[k], col_lower(c))
              /\ recon.column_map[c] # PriorityOrder[k]
              /\ \E j \in (k + 1)..Len(PriorityOrder) : recon.column_map[c] = PriorityOrder[j]

-----------------------------------------------------------------------------
(* C6: the phase-start events of a run are Phase 1, 2, 3, 4 in this order,  *)
(* each at most once; a phase has started only if every earlier phase       *)
(* completed without error; after a phase failed no later phase starts and  *)
(* none is started again; and the run returns True only after the write     *)
(* phase completed, with a write that succeeded.                            *)
C6_PhaseOrder ==
    /\ phases = SubSeq(<<1, 2, 3, 4>>, 1, Len(phases))
    /\ \A i \in 1..Len(phases) : \A j \in 1..(phases[i] - 1) :
          j \in completed /\ failed # j
    /\ completed \subseteq Range(phases)
    /\ failed # 0 => (phases # <<>> /\ phases[Len(phases)] = failed)
    /\ result = "True" =>
          /\ phases = <<1, 2, 3, 4>>
          /\ completed = {1, 2, 3, 4}
          /\ failed = 0
          /\ writes # <<>>
          /\ writes[Len(writes)].ok
    /\ (pc = "done" /\ result # "True") => failed # 0

\* a run that started all four phases and returned True
C6_Witness ==
    /\ pc = "done"
    /\ result = "True"
    /\ phases = <<1, 2, 3, 4>>
    /\ file_rows # <<>>

-----------------------------------------------------------------------------
(* C7: no exception leaves an entry point: a run that has ended returned    *)
(* True or False, with no exception in flight, and returned False whenever  *)
(* a phase raised or the writer reported failure; an exception is in flight *)
(* exactly while the run is on its way to the except clause of its entry    *)
(* point, and that clause can then act.                                     *)
C7_NoEscape ==
    /\ result \in {"none", "True", "False"}
    /\ pc = "done" <=> result # "none"
    /\ pc = "done" => exc = NoExc
    /\ (pc = "done" /\ failed # 0) => result = "False"
    /\ (pc = "done" /\ writes # <<>> /\ ~writes[Len(writes)].ok) => result = "False"
    /\ exc # NoExc <=> pc = "except"
    /\ pc = "except" =>
          ENABLED (run_transformation_pipeline_except \/ run_msm_transformation_pipeline_except)

\* a strict run on a path that does not exist: FileNotFoundError was raised
\* and the entry point returned False
C7_Witness ==
    /\ IsStrict
    /\ ~file_exists
    /\ pc = "done"
    /\ failed = 1
    /\ result = "False"

-----------------------------------------------------------------------------
(* The input cell behind an output cell *)

\* the column of the file bound to field f
ColumnOf(f) ==
    IF IsStrict
    THEN CHOOSE c \in DOMAIN recon.normalization_map : recon.normalization_map[c] = f
    ELSE CHOOSE c \in DOMAIN recon.column_map : recon.column_map[c] = f

\* the raw text of field f in data row i of the file
Raw(i, f) == file_rows[i][Position(file_columns, ColumnOf(f))]

\* the cell of column c in row k of the frame
Cell(k, c) == df.rows[k].cells[Position(df.columns, c)]

\* the data rows of the file whose identifier field is not empty
WithIdentifier ==
    SelectSeq([i \in 1..Len(file_rows) |-> i], LAMBDA i : Raw(i, "Issue Key") # "")

Warnings == SelectSeq(log, LAMBDA e : e.level = "warning")
Errors   == SelectSeq(log, LAMBDA e : e.level = "error")

-----------------------------------------------------------------------------
(* C8: strict schema, validate_and_clean: the rows that survive are exactly *)
(* the rows whose Ticket ID is present, in their order and with their       *)
(* values; the number of rows dropped is the input row count minus the      *)
(* output row count; a warning with that count is logged exactly when a row *)
(* was dropped, and dropping rows is no error.                              *)
C8_DropMissingTicketId ==
    (IsStrict /\ 3 \in completed) =>
        /\ Len(df.rows) = Len(WithIdentifier)
        /\ \A k \in 1..Len(df.rows) :
              LET i == WithIdentifier[k]
              IN  /\ df.rows[k].idx = i - 1
                  /\ Cell(k, "Ticket ID") = Str(Raw(i, "Issue Key"))
                  /\ Cell(k, "Ticket Type") = Str(Raw(i, "Issue Type"))
                  /\ Cell(k, "Status") = Str(Raw(i, "Status"))
                  /\ Cell(k, "Priority") = Str("NONE")
                  /\ Cell(k, "Application") = Str("HMOF")
                  /\ Cell(k, "Assignment Group") = Str("HMH Support Group")
        /\ Warnings =
              IF Len(df.rows) < Len(file_rows)
              THEN << [ level |-> "warning", msg |-> "Dropped rows",
                        count |-> Len(file_rows) - Len(df.rows) ] >>
              ELSE <<>>
        /\ pc = "write" => (Errors = <<>> /\ failed = 0)

\* validate_and_clean dropped one of two rows and kept the second
C8_Witness ==
    /\ IsStrict
    /\ pc = "write"
    /\ Len(file_rows) = 2
    /\ Len(df.rows) = 1
    /\ df.rows[1].idx = 1

-----------------------------------------------------------------------------
(* C9: MSM schema: whichever recognised columns the file has, load,         *)
(* transform and validate do not fail, and after validate_msm_data every    *)
(* published column exists in every row and no cell is null: a copied       *)
(* column holds the text of its source cell, and the empty string where     *)
(* the source column is absent or the source cell is empty; Priority holds  *)
(* 'P3 (Low)' and Time Spent() holds 0.0 in those cases.                    *)

\* the published columns that copy a source field
CopiedFrom ==
    << <<"Tower", "Project Name">>,
       <<"JIRA ID", "Issue Key">>,
       <<"Issue Summary", "Summary">>,
       <<"Assignee", "Assignee">>,
       <<"Platform / Content / Data", "Platform">>,
       <<"Status", "Status">>,
       <<"Issue Status", "Status">>,
       <<"Issue Creation Time mm/dd/yyyy hh:mm:ss am/pm", "Created">>,
       <<"Issue Assigned Time (CTS)mm/dd/yyyy hh:mm:ss am/pm", "Created">>,
       <<"CTS Response Time mm/dd/yyyy hh:mm:ss am/pm", "Updated">>,
       <<"CTS Resolution Time mm/dd/yyyy hh:mm:ss am/pm", "Resolved">>,
       <<"Last updated Date", "Updated">> >>

\* field f has no source column, or its cell in data row i is empty
Absent(i, f) == f \notin recon.found_columns \/ Raw(i, f) = ""

C9_BestEffortDefaults ==
    IsMsm =>
        /\ file_exists => (pc # "except" /\ failed \notin {1, 2, 3})
        /\ 3 \in completed =>
              /\ Range(MSM_FINAL_COLUMN_ORDER) \subseteq Range(df.columns)
              /\ \A k \in 1..Len(df.rows) :
                    LET i == df.rows[k].idx + 1
                    IN  /\ Len(df.rows[k].cells) = Len(df.columns)
                        /\ \A c \in 1..Len(df.columns) : ~isna(df.rows[k].cells[c])
                        /\ \A r \in 1..Len(CopiedFrom) :
                              Cell(k, CopiedFrom[r][1]) =
                                  IF Absent(i, CopiedFrom[r][2]) THEN Str("")
                                  ELSE Str(Raw(i, CopiedFrom[r][2]))
                        /\ Absent(i, "Priority") => Cell(k, "Priority") = Str("P3 (Low)")
                        /\ Absent(i, "Worklog") => Cell(k, "Time Spent()") = Float2(0)
                        /\ \A c \in 19..27 : df.rows[k].cells[c] = Str("")

\* validate_msm_data returned a row whose Priority cell was empty, from a
\* file without a Worklog and without a Project Name column
C9_Witness ==
    /\ IsMsm
    /\ pc = "write"
    /\ "Priority" \in recon.found_columns
    /\ "Worklog" \notin recon.found_columns
    /\ \E k \in 1..Len(df.rows) : Raw(df.rows[k].idx + 1, "Priority") = ""

-----------------------------------------------------------------------------
(* C10: strict schema, date normalisation: a missing or unparseable Open    *)
(* Date or Closed Date raises nothing and removes no row; such a Closed     *)
(* Date becomes the empty string, such an Open Date stays the absent        *)
(* sentinel NaT; a date that parses becomes its timestamp, whatever the     *)
(* cells of the other rows hold.                                            *)
Parses(t) == t \in DOMAIN DATE_TEXTS

C10_DateNormalisation ==
    (IsStrict /\ 1 \in completed) =>
        /\ failed # 3
        /\ pc # "except"
        /\ 3 \in completed =>
              /\ \A i \in Range(WithIdentifier) : \E k \in 1..Len(df.rows) : df.rows[k].idx = i - 1
              /\ \A k \in 1..Len(df.rows) :
                    LET i == df.rows[k].idx + 1
                    IN  /\ Cell(k, "Open Date") =
                              IF Parses(Raw(i, "Updated"))
                              THEN Timestamp(DATE_TEXTS[Raw(i, "Updated")]) ELSE NaT
                        /\ Cell(k, "Closed Date") =
                              IF Parses(Raw(i, "Resolved"))
                              THEN Timestamp(DATE_TEXTS[Raw(i, "Resolved")]) ELSE Str("")

\* validate_and_clean returned two rows: one with an unparseable Open Date
\* and a missing Closed Date, one with both dates parsed
C10_Witness ==
    /\ IsStrict
    /\ pc = "write"
    /\ \E k, m \in 1..Len(df.rows) :
          /\ Raw(df.rows[k].idx + 1, "Updated") = "garbage"
          /\ Raw(df.rows[k].idx + 1, "Resolved") = ""
          /\ Cell(k, "Open Date") = NaT
          /\ Cell(k, "Closed Date") = Str("")
          /\ "ts" \in DOMAIN Cell(m, "Open Date")
          /\ "ts" \in DOMAIN Cell(m, "Closed Date")

-----------------------------------------------------------------------------
(* C11: MSM Priority: in every row, from apply_msm_transformations on, a    *)
(* source priority 'Major' gives 'P1 (High)', 'Medium' gives 'P2 (Medium)', *)
(* and every other value, 'Minor', 'Not set', unmapped text, an empty cell  *)
(* or an absent Priority column, gives 'P3 (Low)'; no other value occurs.   *)
C11_PriorityDerivation ==
    (IsMsm /\ 2 \in completed) =>
        \A k \in 1..Len(df.rows) :
            LET i == df.rows[k].idx + 1
                src == IF Absent(i, "Priority") THEN "" ELSE Raw(i, "Priority")
            IN  /\ Cell(k, "Priority") =
                      Str(CASE src = "Major"  -> "P1 (High)"
                            [] src = "Medium" -> "P2 (Medium)"
                            [] OTHER          -> "P3 (Low)")
                /\ Cell(k, "Priority") \in
                      {Str("P1 (High)"), Str("P2 (Medium)"), Str("P3 (Low)")}

\* the table for the writer has a row from 'Major' and a row from unmapped
\* text
C11_Witness ==
    /\ IsMsm
    /\ pc = "write"
    /\ \E k, m \in 1..Len(df.rows) :
          /\ Raw(df.rows[k].idx + 1, "Priority") = "Major"
          /\ Cell(k, "Priority") = Str("P1 (High)")
          /\ Raw(df.rows[m].idx + 1, "Priority") = "Blocker"
          /\ Cell(m, "Priority") = Str("P3 (Low)")

-----------------------------------------------------------------------------
(* C12: MSM 'Resolution SLA Met?': in every row, from                       *)
(* apply_msm_transformations on, the value is 'Yes' if the identifier holds *)
(* 'CSI' in any letter case and 'NA' otherwise, also for an empty cell and  *)
(* an absent identifier column; it is never blank nor a third value.        *)
C12_ResolutionSla ==
    (IsMsm /\ 2 \in completed) =>
        \A k \in 1..Len(df.rows) :
            LET i == df.rows[k].idx + 1
                id == IF Absent(i, "Issue Key") THEN <<>> ELSE Chars(Raw(i, "Issue Key"))
            IN  Cell(k, "Resolution SLA Met?") =
                    IF contains(<<"c","s","i">>, lower(id)) THEN Str("Yes") ELSE Str("NA")

\* apply_msm_transformations returned a row with a lower-case csi
\* identifier and a row with an empty identifier
C12_Witness ==
    /\ IsMsm
    /\ pc = "validate"
    /\ "Issue Key" \in recon.found_columns
    /\ \E k, m \in 1..Len(df.rows) :
          /\ Raw(k, "Issue Key") = "csi-7"
          /\ Cell(k, "Resolution SLA Met?") = Str("Yes")
          /\ Raw(m, "Issue Key") = ""
          /\ Cell(m, "Resolution SLA Met?") = Str("NA")

-----------------------------------------------------------------------------
(* C13: MSM 'Time Spent()': in every row, from apply_msm_transformations    *)
(* on, the value is the source seconds divided by 3600 to two decimals      *)
(* (within half a hundredth of an hour; 7200 gives 2.0), and 0.0 for an     *)
(* empty cell, a cell that is no number and an absent Worklog column; the   *)
(* transformation does not fail.                                            *)
C13_TimeSpent ==
    IsMsm =>
        /\ failed # 2
        /\ 2 \in completed =>
              \A k \in 1..Len(df.rows) :
                  LET i == df.rows[k].idx + 1
                      h == Cell(k, "Time Spent()")
                  IN  /\ DOMAIN h = {"f2"}
                      /\ IF Absent(i, "Worklog") \/ Raw(i, "Worklog") \notin DOMAIN NUMBER_TEXTS
                         THEN h.f2 = 0
                         ELSE LET secs == NUMBER_TEXTS[Raw(i, "Worklog")]
                              IN  /\ 36 * h.f2 - secs \in -18..18
                                  /\ secs = 7200 => h.f2 = 200

\* the table for the writer has a row from 5454 seconds next to a row from
\* a cell that is no number
C13_Witness ==
    /\ IsMsm
    /\ pc = "write"
    /\ "Worklog" \in recon.found_columns
    /\ \E k, m \in 1..Len(df.rows) :
          /\ Raw(df.rows[k].idx + 1, "Worklog") = "5454"
          /\ Cell(k, "Time Spent()") = Float2(152)
          /\ Raw(df.rows[m].idx + 1, "Worklog") = "abc"
          /\ Cell(m, "Time Spent()") = Float2(0)

-----------------------------------------------------------------------------
(* C14: the pagination loop of fetch_jira_issues always ends, whatever the  *)
(* server answers: a fetch that keeps running eventually returns or raises. *)
C14_FetchTerminates == <>(fpc \in {"returned", "raised"})

-----------------------------------------------------------------------------
(* C15: cursor-ordered pagination.  While every POST is on record: each     *)
(* POST has its response before the next is made; the first POST carries no *)
(* token and every later one the token of the response before it; a POST    *)
(* follows only a page that had issues and a token; all_issues is the       *)
(* concatenation, in page order, of the pages received, so up to and        *)
(* including the first page without a token, or up to the first empty page; *)
(* and the file written holds exactly these issues.                         *)

\* a page after which the loop goes on
Continuing(r) == r.status = 200 /\ r.issues # <<>> /\ r.nextPageToken # None

\* the issues of the first n responses, in page order
RECURSIVE Collected(_)
Collected(n) ==
    IF n = 0 THEN <<>>
    ELSE Collected(n - 1) \o (IF responses[n].status = 200 THEN responses[n].issues ELSE <<>>)

C15_CursorOrder ==
    ~beyond =>
        /\ Len(requests) = Len(responses)
        /\ requests # <<>> => requests[1] = None
        /\ \A j \in 2..Len(requests) :
              /\ Continuing(responses[j - 1])
              /\ requests[j] = responses[j - 1].nextPageToken
        /\ fpc = "loop" => (responses = <<>> \/ Continuing(responses[Len(responses)]))
        /\ fpc \in {"flatten", "returned"} =>
              (responses # <<>> /\ ~Continuing(responses[Len(responses)]))
        /\ all_issues = Collected(Len(responses))
        /\ fetch_result = "True" => csv = [rows |-> all_issues]

\* a full first page with a token, then an empty page: two POSTs, and the
\* issues of the first page collected and written
C15_Witness ==
    /\ fpc = "returned"
    /\ Len(requests) = 2
    /\ requests[2] = "t1"
    /\ responses[1].issues = page(1, MaxPageIssues)
    /\ responses[2].issues = <<>>
    /\ all_issues = page(1, MaxPageIssues)
    /\ csv = [rows |-> page(1, MaxPageIssues)]

-----------------------------------------------------------------------------
(* C16: a response with a status that is no success (not 2xx) ends the      *)
(* fetch: it is the last response, fetch_jira_issues raises, and no file is *)
(* written; a response with a success status (2xx) is not taken for an      *)
(* error.                                                                   *)
C16_NonSuccessAborts ==
    ~beyond =>
        \A j \in 1..Len(responses) :
            IF responses[j].status \in 200..299
            THEN j = Len(responses) => fetch_result # "Exception"
            ELSE /\ j = Len(responses)
                 /\ fpc = "raised"
                 /\ fetch_result = "Exception"
                 /\ csv = NoFile

-----------------------------------------------------------------------------
(* C17: in either schema, when the write of the spreadsheet fails, one      *)
(* plain export of the same table is attempted, and no more: the writer     *)
(* returns True if that export succeeds and False only after both writes    *)
(* failed.                                                                  *)
C17_OneFallback ==
    (pc = "done" /\ writes # <<>>) =>
        IF writes[1].ok
        THEN Len(writes) = 1 /\ result = "True"
        ELSE /\ Len(writes) = 2
             /\ writes[2].writer = "to_excel"
             /\ writes[2].table = writes[1].table
             /\ result = (IF writes[2].ok THEN "True" ELSE "False")

\* the MSM writer: the styled write failed and the plain export succeeded
C17_MsmWitness ==
    /\ IsMsm
    /\ pc = "done"
    /\ Len(writes) = 2
    /\ ~writes[1].ok
    /\ writes[2].ok
    /\ result = "True"

\* the fallback of save_msm_file alone
C17_MsmOneFallback == IsMsm => C17_OneFallback

-----------------------------------------------------------------------------
(* C20: MSM S.No is the ordinal of the output row: in every table handed    *)
(* to the writer the S.No values are 1, 2, ..., N in row order, N the       *)
(* number of rows of the table.                                             *)
C20_SNoIsOrdinal ==
    IsMsm =>
        \A w \in 1..Len(writes) :
            LET t == writes[w].table
            IN  \A k \in 1..Len(t.rows) :
                    t.rows[k].cells[Position(t.columns, "S.No")] = IntVal(k)

-----------------------------------------------------------------------------
-----------------------------------------------------------------------------
(* C19: two worker invocations share no mutable state: in every             *)
(* interleaving, the pipeline of each invocation loads the table that the   *)
(* invocation was given or fetched itself, never the table of the other     *)
(* invocation, a stale one, or no file at all.                              *)
C19_Isolation ==
    \A w \in Workers : w_read[w] \in {NoRead, Own(w)}

-----------------------------------------------------------------------------
(* C21: GUI worker hand-off: whenever the RUN button is disabled, that is   *)
(* after every accepted RUN click, the worker thread eventually writes      *)
(* -THREAD-DONE- and the button is enabled again, whether the fetch and the *)
(* pipeline succeed or fail.                                                *)
C21_ButtonReenabled == run_disabled ~> ~run_disabled

\* the worker threads that have been started and have not ended
Active == {w \in Workers : w_pc[w] \notin {"none", "done", "raised"}}

\* while the button is disabled no second worker is started: the button is
\* disabled exactly while a worker runs, has died, or its event is unread
C21_OneWorker ==
    /\ Cardinality(Active) <= 1
    /\ events \in {0, 1}
    /\ run_disabled <=>
          (Active # {} \/ events = 1 \/ \E w \in Workers : w_pc[w] = "raised")
    /\ events = 1 => Active = {}

\* after an accepted click in file mode the button is enabled again
C21_FileModeReenabled ==
    (run_disabled /\ \E w \in Active : w_mode[w] = "file") ~> ~run_disabled

\* a worker in api mode ended without raising and the button was enabled
C21_ApiWitness ==
    /\ ~run_disabled
    /\ \E w \in Workers : w_mode[w] = "api" /\ w_pc[w] = "done" /\ w_read[w] = Own(w)

=============================================================================
